---- MODULE Spec2Model ----
(***************************************************************************)
(* The audit-log payload decoder of discord/audit_logs.py: the transform   *)
(* functions, the change-diff builder AuditLogChanges, and the entry       *)
(* decoder AuditLogEntry with its memoized accessors.                      *)
(***************************************************************************)
EXTENDS Integers, Sequences, FiniteSets, TLC

(***************************************************************************)
(* Values.  Every Python value is a record with a tag, so that values of   *)
(* different Python types are comparable and never equal.                  *)
(***************************************************************************)
\* Python None.
None == [tag |-> "None"]

\* A key that a dict does not have (elem["old_value"] raises KeyError).
Absent == [tag |-> "Absent"]

\* A JSON string.
Str(s) == [tag |-> "str", s |-> s]

\* A Python int.
Num(n) == [tag |-> "int", n |-> n]

\* A Python list.
List(items) == [tag |-> "list", items |-> items]

\* A Python dict with string keys; fields is a function from keys to values.
Dict(fields) == [tag |-> "dict", fields |-> fields]

\* The decimal strings the payloads of this model carry, and int() of them.
IntOf == ("0" :> 0) @@ ("1" :> 1) @@ ("2" :> 2) @@ ("3" :> 3) @@ ("7" :> 7)

\* int(data): parses a string, leaves an int alone.
ToInt(v) == IF v.tag = "str" THEN IntOf[v.s] ELSE v.n

\* discord.Object(id=...): the opaque reference, carrying the id as an int.
Object(id) == [tag |-> "Object", id |-> ToInt(id)]

\* An Object on which the caller then sets .name.
NamedObject(id, name) == [tag |-> "Object", id |-> ToInt(id), name |-> name]

\* Python truthiness of an options value: None and the empty dict are falsy.
Truthy(v) == v.tag # "None" /\ (v.tag = "dict" => DOMAIN v.fields # {})

(***************************************************************************)
(* Lexicographic order of the change keys, by code point, as Python        *)
(* compares str.                                                           *)
(***************************************************************************)
KeyChars ==
    "$add" :> <<36, 97, 100, 100>> @@
    "$remove" :> <<36, 114, 101, 109, 111, 118, 101>> @@
    "$add_keyword_filter" :> <<36, 97, 100, 100, 95, 107, 101, 121, 119, 111, 114, 100, 95, 102, 105, 108, 116, 101, 114>> @@
    "$add_regex_patterns" :> <<36, 97, 100, 100, 95, 114, 101, 103, 101, 120, 95, 112, 97, 116, 116, 101, 114, 110, 115>> @@
    "$add_allow_list" :> <<36, 97, 100, 100, 95, 97, 108, 108, 111, 119, 95, 108, 105, 115, 116>> @@
    "$remove_keyword_filter" :> <<36, 114, 101, 109, 111, 118, 101, 95, 107, 101, 121, 119, 111, 114, 100, 95, 102, 105, 108, 116, 101, 114>> @@
    "$remove_regex_patterns" :> <<36, 114, 101, 109, 111, 118, 101, 95, 114, 101, 103, 101, 120, 95, 112, 97, 116, 116, 101, 114, 110, 115>> @@
    "$remove_allow_list" :> <<36, 114, 101, 109, 111, 118, 101, 95, 97, 108, 108, 111, 119, 95, 108, 105, 115, 116>> @@
    "verification_level" :> <<118, 101, 114, 105, 102, 105, 99, 97, 116, 105, 111, 110, 95, 108, 101, 118, 101, 108>> @@
    "explicit_content_filter" :> <<101, 120, 112, 108, 105, 99, 105, 116, 95, 99, 111, 110, 116, 101, 110, 116, 95, 102, 105, 108, 116, 101, 114>> @@
    "allow" :> <<97, 108, 108, 111, 119>> @@
    "deny" :> <<100, 101, 110, 121>> @@
    "permissions" :> <<112, 101, 114, 109, 105, 115, 115, 105, 111, 110, 115>> @@
    "id" :> <<105, 100>> @@
    "color" :> <<99, 111, 108, 111, 114>> @@
    "owner_id" :> <<111, 119, 110, 101, 114, 95, 105, 100>> @@
    "inviter_id" :> <<105, 110, 118, 105, 116, 101, 114, 95, 105, 100>> @@
    "channel_id" :> <<99, 104, 97, 110, 110, 101, 108, 95, 105, 100>> @@
    "afk_channel_id" :> <<97, 102, 107, 95, 99, 104, 97, 110, 110, 101, 108, 95, 105, 100>> @@
    "system_channel_id" :> <<115, 121, 115, 116, 101, 109, 95, 99, 104, 97, 110, 110, 101, 108, 95, 105, 100>> @@
    "widget_channel_id" :> <<119, 105, 100, 103, 101, 116, 95, 99, 104, 97, 110, 110, 101, 108, 95, 105, 100>> @@
    "rules_channel_id" :> <<114, 117, 108, 101, 115, 95, 99, 104, 97, 110, 110, 101, 108, 95, 105, 100>> @@
    "public_updates_channel_id" :> <<112, 117, 98, 108, 105, 99, 95, 117, 112, 100, 97, 116, 101, 115, 95, 99, 104, 97, 110, 110, 101, 108, 95, 105, 100>> @@
    "permission_overwrites" :> <<112, 101, 114, 109, 105, 115, 115, 105, 111, 110, 95, 111, 118, 101, 114, 119, 114, 105, 116, 101, 115>> @@
    "splash_hash" :> <<115, 112, 108, 97, 115, 104, 95, 104, 97, 115, 104>> @@
    "banner_hash" :> <<98, 97, 110, 110, 101, 114, 95, 104, 97, 115, 104>> @@
    "discovery_splash_hash" :> <<100, 105, 115, 99, 111, 118, 101, 114, 121, 95, 115, 112, 108, 97, 115, 104, 95, 104, 97, 115, 104>> @@
    "icon_hash" :> <<105, 99, 111, 110, 95, 104, 97, 115, 104>> @@
    "avatar_hash" :> <<97, 118, 97, 116, 97, 114, 95, 104, 97, 115, 104>> @@
    "rate_limit_per_user" :> <<114, 97, 116, 101, 95, 108, 105, 109, 105, 116, 95, 112, 101, 114, 95, 117, 115, 101, 114>> @@
    "guild_id" :> <<103, 117, 105, 108, 100, 95, 105, 100>> @@
    "tags" :> <<116, 97, 103, 115>> @@
    "default_message_notifications" :> <<100, 101, 102, 97, 117, 108, 116, 95, 109, 101, 115, 115, 97, 103, 101, 95, 110, 111, 116, 105, 102, 105, 99, 97, 116, 105, 111, 110, 115>> @@
    "rtc_region" :> <<114, 116, 99, 95, 114, 101, 103, 105, 111, 110>> @@
    "video_quality_mode" :> <<118, 105, 100, 101, 111, 95, 113, 117, 97, 108, 105, 116, 121, 95, 109, 111, 100, 101>> @@
    "privacy_level" :> <<112, 114, 105, 118, 97, 99, 121, 95, 108, 101, 118, 101, 108>> @@
    "format_type" :> <<102, 111, 114, 109, 97, 116, 95, 116, 121, 112, 101>> @@
    "type" :> <<116, 121, 112, 101>> @@
    "status" :> <<115, 116, 97, 116, 117, 115>> @@
    "entity_type" :> <<101, 110, 116, 105, 116, 121, 95, 116, 121, 112, 101>> @@
    "command_id" :> <<99, 111, 109, 109, 97, 110, 100, 95, 105, 100>> @@
    "image_hash" :> <<105, 109, 97, 103, 101, 95, 104, 97, 115, 104>> @@
    "trigger_type" :> <<116, 114, 105, 103, 103, 101, 114, 95, 116, 121, 112, 101>> @@
    "event_type" :> <<101, 118, 101, 110, 116, 95, 116, 121, 112, 101>> @@
    "actions" :> <<97, 99, 116, 105, 111, 110, 115>> @@
    "trigger_metadata" :> <<116, 114, 105, 103, 103, 101, 114, 95, 109, 101, 116, 97, 100, 97, 116, 97>> @@
    "exempt_roles" :> <<101, 120, 101, 109, 112, 116, 95, 114, 111, 108, 101, 115>> @@
    "exempt_channels" :> <<101, 120, 101, 109, 112, 116, 95, 99, 104, 97, 110, 110, 101, 108, 115>> @@
    "name" :> <<110, 97, 109, 101>> @@
    "channel" :> <<99, 104, 97, 110, 110, 101, 108>> @@
    "colour" :> <<99, 111, 108, 111, 117, 114>> @@
    "location" :> <<108, 111, 99, 97, 116, 105, 111, 110>> @@
    "location_type" :> <<108, 111, 99, 97, 116, 105, 111, 110, 95, 116, 121, 112, 101>> @@
    "roles" :> <<114, 111, 108, 101, 115>> @@
    "expire_behavior" :> <<101, 120, 112, 105, 114, 101, 95, 98, 101, 104, 97, 118, 105, 111, 114>> @@
    "expire_behaviour" :> <<101, 120, 112, 105, 114, 101, 95, 98, 101, 104, 97, 118, 105, 111, 117, 114>> @@
    "code" :> <<99, 111, 100, 101>> @@
    "max_age" :> <<109, 97, 120, 95, 97, 103, 101>> @@
    "max_uses" :> <<109, 97, 120, 95, 117, 115, 101, 115>> @@
    "temporary" :> <<116, 101, 109, 112, 111, 114, 97, 114, 121>> @@
    "uses" :> <<117, 115, 101, 115>> @@
    "default_notifications" :> <<100, 101, 102, 97, 117, 108, 116, 95, 110, 111, 116, 105, 102, 105, 99, 97, 116, 105, 111, 110, 115>> @@
    "expire_grace_period" :> <<101, 120, 112, 105, 114, 101, 95, 103, 114, 97, 99, 101, 95, 112, 101, 114, 105, 111, 100>> @@
    "keyword_filter" :> <<107, 101, 121, 119, 111, 114, 100, 95, 102, 105, 108, 116, 101, 114>> @@
    "regex_patterns" :> <<114, 101, 103, 101, 120, 95, 112, 97, 116, 116, 101, 114, 110, 115>> @@
    "allow_list" :> <<97, 108, 108, 111, 119, 95, 108, 105, 115, 116>>

\* a < b for two sequences of code points.
RECURSIVE SeqLess(_, _)
SeqLess(a, b) ==
    IF b = <<>> THEN FALSE
    ELSE IF a = <<>> THEN TRUE
    ELSE IF Head(a) # Head(b) THEN Head(a) < Head(b)
    ELSE SeqLess(Tail(a), Tail(b))

\* k1 < k2 as Python strings.
KeyLess(k1, k2) == SeqLess(KeyChars[k1], KeyChars[k2])

\* Inserts elem into a list sorted by key, after every element whose key is
\* not greater: the insertion step of a stable sort.
RECURSIVE InsertByKey(_, _)
InsertByKey(sorted, elem) ==
    IF sorted = <<>> THEN <<elem>>
    ELSE IF KeyLess(elem.key, Head(sorted).key) THEN <<elem>> \o sorted
    ELSE <<Head(sorted)>> \o InsertByKey(Tail(sorted), elem)

\* The list left in input order: the loop without its sort.
Unsorted(data) == data

\* sorted(data, key=lambda i: i["key"]): stable, ascending.
RECURSIVE SortedByKey(_)
SortedByKey(data) ==
    IF data = <<>> THEN <<>>
    ELSE InsertByKey(SortedByKey(SubSeq(data, 1, Len(data) - 1)), data[Len(data)])

(***************************************************************************)
(* The collaborators' caches.  An entry e carries e.guild (the ids of the  *)
(* cached channels, roles, members, ...), e.users (the fallback user       *)
(* table) and e.state (the connection state's guilds, emojis, stickers).   *)
(***************************************************************************)
\* guild.get_channel(id)
GetChannel(e, id) == IF id \in e.guild.channels THEN [tag |-> "Channel", id |-> id] ELSE None

\* guild.get_role(id)
GetRole(e, id) == IF id \in e.guild.roles THEN [tag |-> "Role", id |-> id] ELSE None

\* guild.get_thread(id)
GetThread(e, id) == IF id \in e.guild.threads THEN [tag |-> "Thread", id |-> id] ELSE None

\* guild.get_stage_instance(id)
GetStageInstance(e, id) ==
    IF id \in e.guild.stage_instances THEN [tag |-> "StageInstance", id |-> id] ELSE None

\* guild.get_scheduled_event(id)
GetScheduledEvent(e, id) ==
    IF id \in e.guild.scheduled_events THEN [tag |-> "ScheduledEvent", id |-> id] ELSE None

\* state.get_emoji(id)
GetEmoji(e, id) == IF id \in e.state.emojis THEN [tag |-> "Emoji", id |-> id] ELSE None

\* state.get_sticker(id)
GetSticker(e, id) == IF id \in e.state.stickers THEN [tag |-> "Sticker", id |-> id] ELSE None

\* state._get_guild(key): a dict lookup by the key as given; the table is
\* keyed by int, so a key that is still a string finds nothing.
GetGuild(e, key) ==
    IF key.tag = "int" /\ key.n \in e.state.guilds THEN [tag |-> "Guild", id |-> key.n]
    ELSE None

\* x or y
Or(x, y) == IF x # None THEN x ELSE y

\* AuditLogEntry._get_member: the guild's member, else the users table's
\* user, else None.
_get_member(e, user_id) ==
    IF user_id \in e.guild.members THEN [tag |-> "Member", id |-> user_id]
    ELSE IF user_id \in e.users THEN [tag |-> "User", id |-> user_id]
    ELSE None

(***************************************************************************)
(* enums.AuditLogAction, as far as the decoder uses it: the members by     *)
(* ordinal, their names, and target_type.                                  *)
(***************************************************************************)
\* The members of AuditLogAction this model's payloads use, by ordinal.
AuditLogActionNames ==
    1 :> "guild_update" @@
    10 :> "channel_create" @@
    13 :> "overwrite_create" @@
    14 :> "overwrite_update" @@
    15 :> "overwrite_delete" @@
    20 :> "kick" @@
    21 :> "member_prune" @@
    25 :> "member_role_update" @@
    26 :> "member_move" @@
    27 :> "member_disconnect" @@
    31 :> "role_update" @@
    40 :> "invite_create" @@
    41 :> "invite_update" @@
    42 :> "invite_delete" @@
    50 :> "webhook_create" @@
    60 :> "emoji_create" @@
    72 :> "message_delete" @@
    73 :> "message_bulk_delete" @@
    74 :> "message_pin" @@
    75 :> "message_unpin" @@
    81 :> "integration_update" @@
    83 :> "stage_instance_create" @@
    90 :> "sticker_create" @@
    101 :> "scheduled_event_update" @@
    110 :> "thread_create" @@
    141 :> "auto_moderation_rule_update"

\* The code points of the action names and of the affixes the decoder
\* tests them for.
NameChars ==
    "guild_update" :> <<103, 117, 105, 108, 100, 95, 117, 112, 100, 97, 116, 101>> @@
    "channel_create" :> <<99, 104, 97, 110, 110, 101, 108, 95, 99, 114, 101, 97, 116, 101>> @@
    "overwrite_create" :> <<111, 118, 101, 114, 119, 114, 105, 116, 101, 95, 99, 114, 101, 97, 116, 101>> @@
    "overwrite_update" :> <<111, 118, 101, 114, 119, 114, 105, 116, 101, 95, 117, 112, 100, 97, 116, 101>> @@
    "overwrite_delete" :> <<111, 118, 101, 114, 119, 114, 105, 116, 101, 95, 100, 101, 108, 101, 116, 101>> @@
    "kick" :> <<107, 105, 99, 107>> @@
    "member_prune" :> <<109, 101, 109, 98, 101, 114, 95, 112, 114, 117, 110, 101>> @@
    "member_role_update" :> <<109, 101, 109, 98, 101, 114, 95, 114, 111, 108, 101, 95, 117, 112, 100, 97, 116, 101>> @@
    "member_move" :> <<109, 101, 109, 98, 101, 114, 95, 109, 111, 118, 101>> @@
    "member_disconnect" :> <<109, 101, 109, 98, 101, 114, 95, 100, 105, 115, 99, 111, 110, 110, 101, 99, 116>> @@
    "role_update" :> <<114, 111, 108, 101, 95, 117, 112, 100, 97, 116, 101>> @@
    "invite_create" :> <<105, 110, 118, 105, 116, 101, 95, 99, 114, 101, 97, 116, 101>> @@
    "invite_update" :> <<105, 110, 118, 105, 116, 101, 95, 117, 112, 100, 97, 116, 101>> @@
    "invite_delete" :> <<105, 110, 118, 105, 116, 101, 95, 100, 101, 108, 101, 116, 101>> @@
    "webhook_create" :> <<119, 101, 98, 104, 111, 111, 107, 95, 99, 114, 101, 97, 116, 101>> @@
    "emoji_create" :> <<101, 109, 111, 106, 105, 95, 99, 114, 101, 97, 116, 101>> @@
    "message_delete" :> <<109, 101, 115, 115, 97, 103, 101, 95, 100, 101, 108, 101, 116, 101>> @@
    "message_bulk_delete" :> <<109, 101, 115, 115, 97, 103, 101, 95, 98, 117, 108, 107, 95, 100, 101, 108, 101, 116, 101>> @@
    "message_pin" :> <<109, 101, 115, 115, 97, 103, 101, 95, 112, 105, 110>> @@
    "message_unpin" :> <<109, 101, 115, 115, 97, 103, 101, 95, 117, 110, 112, 105, 110>> @@
    "integration_update" :> <<105, 110, 116, 101, 103, 114, 97, 116, 105, 111, 110, 95, 117, 112, 100, 97, 116, 101>> @@
    "stage_instance_create" :> <<115, 116, 97, 103, 101, 95, 105, 110, 115, 116, 97, 110, 99, 101, 95, 99, 114, 101, 97, 116, 101>> @@
    "sticker_create" :> <<115, 116, 105, 99, 107, 101, 114, 95, 99, 114, 101, 97, 116, 101>> @@
    "scheduled_event_update" :> <<115, 99, 104, 101, 100, 117, 108, 101, 100, 95, 101, 118, 101, 110, 116, 95, 117, 112, 100, 97, 116, 101>> @@
    "thread_create" :> <<116, 104, 114, 101, 97, 100, 95, 99, 114, 101, 97, 116, 101>> @@
    "auto_moderation_rule_update" :> <<97, 117, 116, 111, 95, 109, 111, 100, 101, 114, 97, 116, 105, 111, 110, 95, 114, 117, 108, 101, 95, 117, 112, 100, 97, 116, 101>> @@
    "sticker_" :> <<115, 116, 105, 99, 107, 101, 114, 95>> @@
    "overwrite_" :> <<111, 118, 101, 114, 119, 114, 105, 116, 101, 95>> @@
    "stage_instance" :> <<115, 116, 97, 103, 101, 95, 105, 110, 115, 116, 97, 110, 99, 101>> @@
    "pin" :> <<112, 105, 110>>

\* An ordinal that is no member's.
UnknownOrdinal == 999

\* try_enum(AuditLogAction, ordinal): the member, or the unknown variant,
\* which is no instance of the enum and has no target_type.
try_enum_action(ordinal) ==
    IF ordinal \in DOMAIN AuditLogActionNames
    THEN [known |-> TRUE, name |-> AuditLogActionNames[ordinal], value |-> ordinal]
    ELSE [known |-> FALSE, name |-> "unknown", value |-> ordinal]

\* AuditLogAction.target_type of a member.
target_type(v) ==
    IF v < 10 THEN "guild"
    ELSE IF v < 20 THEN "channel"
    ELSE IF v < 30 THEN "user"
    ELSE IF v < 40 THEN "role"
    ELSE IF v < 50 THEN "invite"
    ELSE IF v < 60 THEN "webhook"
    ELSE IF v < 70 THEN "emoji"
    ELSE IF v = 73 THEN "channel"
    ELSE IF v < 80 THEN "message"
    ELSE IF v < 83 THEN "integration"
    ELSE IF v < 90 THEN "stage_instance"
    ELSE IF v < 93 THEN "sticker"
    ELSE IF v < 103 THEN "scheduled_event"
    ELSE IF v < 113 THEN "thread"
    ELSE IF v < 122 THEN "application_command_permission"
    ELSE "auto_moderation_rule"

\* s.startswith(prefix) on code points.
RECURSIVE StartsWithChars(_, _)
StartsWithChars(s, prefix) ==
    IF prefix = <<>> THEN TRUE
    ELSE IF s = <<>> THEN FALSE
    ELSE Head(s) = Head(prefix) /\ StartsWithChars(Tail(s), Tail(prefix))

\* action.name.startswith(prefix); an unknown variant's name has none of
\* the affixes.
startswith(action, prefix) ==
    action.known /\ StartsWithChars(NameChars[action.name], NameChars[prefix])

\* action.name.endswith(suffix)
endswith(action, suffix) ==
    /\ action.known
    /\ LET s == NameChars[action.name]
           x == NameChars[suffix]
       IN  Len(s) >= Len(x) /\ SubSeq(s, Len(s) - Len(x) + 1, Len(s)) = x

(***************************************************************************)
(* The transform functions.                                                *)
(***************************************************************************)
\* The values of the enums the transformers look up (enums.py).
EnumValues ==
    [ VerificationLevel |-> {0, 1, 2, 3, 4},
      ContentFilter |-> {0, 1, 2},
      NotificationLevel |-> {0, 1},
      VoiceRegion |-> {},
      VideoQualityMode |-> {1, 2},
      StagePrivacyLevel |-> {1, 2},
      StickerFormatType |-> {1, 2, 3, 4},
      ScheduledEventStatus |-> {1, 2, 3, 4},
      ScheduledEventLocationType |-> {1, 2, 3},
      AutoModTriggerType |-> {1, 3, 4, 5},
      AutoModEventType |-> {1},
      ChannelType |-> {0, 1, 2, 3, 4, 5, 10, 11, 12, 13, 14, 15},
      StickerType |-> {1, 2} ]

\* enums.try_enum(enum, data): the member with that value, or an unknown
\* variant that carries the raw value.
try_enum(enum, data) ==
    IF data.tag = "int" /\ data.n \in EnumValues[enum]
    THEN [tag |-> "Enum", enum |-> enum, value |-> data]
    ELSE [tag |-> "UnknownEnum", enum |-> enum, value |-> data]

\* enums.ScheduledEventLocationType.external
ScheduledEventLocationType_external == try_enum("ScheduledEventLocationType", Num(3))

_transform_permissions(e, data) == [tag |-> "Permissions", value |-> ToInt(data)]

_transform_color(e, data) == [tag |-> "Colour", value |-> data]

_transform_snowflake(e, data) == Num(ToInt(data))

_transform_channel(e, data) ==
    IF data = None THEN None
    ELSE Or(GetChannel(e, ToInt(data)), Object(data))

_transform_channels(e, data) ==
    IF data = None THEN None
    ELSE List([i \in 1..Len(data.items) |-> _transform_channel(e, data.items[i])])

_transform_roles(e, data) ==
    IF data = None THEN None
    ELSE List([i \in 1..Len(data.items) |->
                 Or(GetRole(e, ToInt(data.items[i])), Object(data.items[i]))])

_transform_member_id(e, data) ==
    IF data = None THEN None
    ELSE _get_member(e, ToInt(data))

_transform_guild_id(e, data) ==
    IF data = None THEN None
    ELSE GetGuild(e, data)

\* One element of _transform_overwrites' loop.
OverwritePair(e, elem) ==
    LET ow == [tag |-> "PermissionOverwrite",
               allow |-> ToInt(elem.allow), deny |-> ToInt(elem.deny)]
        ow_id == ToInt(elem.id)
        found == IF elem.type = Num(0) THEN GetRole(e, ow_id)
                 ELSE IF elem.type = Num(1) THEN _get_member(e, ow_id)
                 ELSE None
        target == IF found = None THEN Object(Num(ow_id)) ELSE found
    IN  [tag |-> "tuple", items |-> <<target, ow>>]

_transform_overwrites(e, data) ==
    List([i \in 1..Len(data.items) |-> OverwritePair(e, data.items[i])])

_transform_icon(e, data) ==
    IF data = None THEN None
    ELSE [tag |-> "Asset", kind |-> "icon", id |-> e.guild.id, hash |-> data]

_transform_avatar(e, data) ==
    IF data = None THEN None
    ELSE [tag |-> "Asset", kind |-> "avatar", id |-> e.target_id, hash |-> data]

_transform_scheduled_event_image(e, data) ==
    IF data = None THEN None
    ELSE [tag |-> "Asset", kind |-> "scheduled_event_image", id |-> e.target_id,
          hash |-> data]

_guild_hash_transformer(path, e, data) ==
    IF data = None THEN None
    ELSE [tag |-> "Asset", kind |-> path, id |-> e.guild.id, hash |-> data]

_enum_transformer(enum, e, data) == try_enum(enum, data)

_transform_type(e, data) ==
    IF startswith(e.action, "sticker_") THEN try_enum("StickerType", data)
    ELSE try_enum("ChannelType", data)

_transform_actions(e, data) ==
    IF data = None THEN None
    ELSE List([i \in 1..Len(data.items) |->
                 [tag |-> "AutoModAction", data |-> data.items[i]]])

\* AutoModTriggerMetadata.from_dict(data)
AutoModTriggerMetadata_from_dict(data) == [tag |-> "AutoModTriggerMetadata", data |-> data]

_transform_trigger_metadata(e, data) ==
    IF data = None THEN None
    ELSE AutoModTriggerMetadata_from_dict(data)

\* The transformer values of the table: a name, and for the two factories
\* their argument.
T(fn) == [fn |-> fn, arg |-> ""]

TA(fn, arg) == [fn |-> fn, arg |-> arg]

\* No renamed key / no transformer in a table entry.
NoKey == ""

NoTransformer == T("")

\* AuditLogChanges.TRANSFORMERS: raw key -> (renamed key or none, transformer or none).
TRANSFORMERS ==
    "verification_level" :> <<NoKey, TA("_enum_transformer", "VerificationLevel")>> @@
    "explicit_content_filter" :> <<NoKey, TA("_enum_transformer", "ContentFilter")>> @@
    "allow" :> <<NoKey, T("_transform_permissions")>> @@
    "deny" :> <<NoKey, T("_transform_permissions")>> @@
    "permissions" :> <<NoKey, T("_transform_permissions")>> @@
    "id" :> <<NoKey, T("_transform_snowflake")>> @@
    "color" :> <<"colour", T("_transform_color")>> @@
    "owner_id" :> <<"owner", T("_transform_member_id")>> @@
    "inviter_id" :> <<"inviter", T("_transform_member_id")>> @@
    "channel_id" :> <<"channel", T("_transform_channel")>> @@
    "afk_channel_id" :> <<"afk_channel", T("_transform_channel")>> @@
    "system_channel_id" :> <<"system_channel", T("_transform_channel")>> @@
    "widget_channel_id" :> <<"widget_channel", T("_transform_channel")>> @@
    "rules_channel_id" :> <<"rules_channel", T("_transform_channel")>> @@
    "public_updates_channel_id" :> <<"public_updates_channel", T("_transform_channel")>> @@
    "permission_overwrites" :> <<"overwrites", T("_transform_overwrites")>> @@
    "splash_hash" :> <<"splash", TA("_guild_hash_transformer", "splashes")>> @@
    "banner_hash" :> <<"banner", TA("_guild_hash_transformer", "banners")>> @@
    "discovery_splash_hash" :>
        <<"discovery_splash", TA("_guild_hash_transformer", "discovery-splashes")>> @@
    "icon_hash" :> <<"icon", T("_transform_icon")>> @@
    "avatar_hash" :> <<"avatar", T("_transform_avatar")>> @@
    "rate_limit_per_user" :> <<"slowmode_delay", NoTransformer>> @@
    "guild_id" :> <<"guild", T("_transform_guild_id")>> @@
    "tags" :> <<"emoji", NoTransformer>> @@
    "default_message_notifications" :>
        <<"default_notifications", TA("_enum_transformer", "NotificationLevel")>> @@
    "rtc_region" :> <<NoKey, TA("_enum_transformer", "VoiceRegion")>> @@
    "video_quality_mode" :> <<NoKey, TA("_enum_transformer", "VideoQualityMode")>> @@
    "privacy_level" :> <<NoKey, TA("_enum_transformer", "StagePrivacyLevel")>> @@
    "format_type" :> <<NoKey, TA("_enum_transformer", "StickerFormatType")>> @@
    "type" :> <<NoKey, T("_transform_type")>> @@
    "status" :> <<NoKey, TA("_enum_transformer", "ScheduledEventStatus")>> @@
    "entity_type" :>
        <<"location_type", TA("_enum_transformer", "ScheduledEventLocationType")>> @@
    "command_id" :> <<"command_id", T("_transform_snowflake")>> @@
    "image_hash" :> <<"image", T("_transform_scheduled_event_image")>> @@
    "trigger_type" :> <<NoKey, TA("_enum_transformer", "AutoModTriggerType")>> @@
    "event_type" :> <<NoKey, TA("_enum_transformer", "AutoModEventType")>> @@
    "actions" :> <<NoKey, T("_transform_actions")>> @@
    "trigger_metadata" :> <<NoKey, T("_transform_trigger_metadata")>> @@
    "exempt_roles" :> <<NoKey, T("_transform_roles")>> @@
    "exempt_channels" :> <<NoKey, T("_transform_channels")>>

\* transformer(entry, data): the call of a table's transformer.
Apply(t, e, data) ==
    CASE t.fn = "_transform_permissions" -> _transform_permissions(e, data)
      [] t.fn = "_transform_color" -> _transform_color(e, data)
      [] t.fn = "_transform_snowflake" -> _transform_snowflake(e, data)
      [] t.fn = "_transform_channel" -> _transform_channel(e, data)
      [] t.fn = "_transform_channels" -> _transform_channels(e, data)
      [] t.fn = "_transform_roles" -> _transform_roles(e, data)
      [] t.fn = "_transform_member_id" -> _transform_member_id(e, data)
      [] t.fn = "_transform_guild_id" -> _transform_guild_id(e, data)
      [] t.fn = "_transform_overwrites" -> _transform_overwrites(e, data)
      [] t.fn = "_transform_icon" -> _transform_icon(e, data)
      [] t.fn = "_transform_avatar" -> _transform_avatar(e, data)
      [] t.fn = "_transform_scheduled_event_image" ->
            _transform_scheduled_event_image(e, data)
      [] t.fn = "_guild_hash_transformer" -> _guild_hash_transformer(t.arg, e, data)
      [] t.fn = "_enum_transformer" -> _enum_transformer(t.arg, e, data)
      [] t.fn = "_transform_type" -> _transform_type(e, data)
      [] t.fn = "_transform_actions" -> _transform_actions(e, data)
      [] t.fn = "_transform_trigger_metadata" -> _transform_trigger_metadata(e, data)

(***************************************************************************)
(* AuditLogDiff: a bag of attributes, a function from the names set so far *)
(* to their values.                                                        *)
(***************************************************************************)
\* AuditLogDiff(): no attribute.
AuditLogDiff == [a \in {} |-> None]

hasattr(diff, a) == a \in DOMAIN diff

\* A store that leaves an attribute the bag already has as it is.
setattr_keeping(diff, a, v) ==
    [x \in DOMAIN diff \cup {a} |-> IF x \in DOMAIN diff THEN diff[x] ELSE v]

setattr(diff, a, v) == [x \in DOMAIN diff \cup {a} |-> IF x = a THEN v ELSE diff[x]]

\* ScheduledEventLocation(state=state, value=value)
ScheduledEventLocation(value) == [tag |-> "ScheduledEventLocation", value |-> value]

(***************************************************************************)
(* AuditLogChanges.  A change record is [key, old_value, new_value], a     *)
(* side the record does not have being Absent.  The state of the           *)
(* constructor's loop is [before, after, raised]: the two bags and the     *)
(* exception that ended it ("" when none).                                 *)
(***************************************************************************)
RoleKeys == {"$add", "$remove"}

TriggerAddKeys == {"$add_keyword_filter", "$add_regex_patterns", "$add_allow_list"}

TriggerRemoveKeys ==
    {"$remove_keyword_filter", "$remove_regex_patterns", "$remove_allow_list"}

CompositeKeys == RoleKeys \cup TriggerAddKeys \cup TriggerRemoveKeys

\* One role stub of _handle_role's loop: the cached role, or an Object with
\* the stub's id and name.
ResolveRole(e, stub) ==
    LET role_id == ToInt(stub.id)
        role == GetRole(e, role_id)
    IN  IF role = None THEN NamedObject(Num(role_id), stub.name) ELSE role

\* _handle_role without the placeholder on the first bag.
_handle_role_second_only(first, second, e, elem) ==
    [first |-> first,
     second |-> setattr(second, "roles",
                        List([i \in 1..Len(elem.items) |-> ResolveRole(e, elem.items[i])]))]

\* AuditLogChanges._handle_role(first, second, entry, elem): the two bags
\* afterwards.
_handle_role(first, second, e, elem) ==
    LET data == List([i \in 1..Len(elem.items) |-> ResolveRole(e, elem.items[i])])
    IN  [first |-> IF ~hasattr(first, "roles") THEN setattr(first, "roles", List(<<>>))
                   ELSE first,
         second |-> setattr(second, "roles", data)]

\* The code points of a key after its first underscore.
RECURSIVE AfterUnderscore(_)
AfterUnderscore(chars) ==
    IF chars = <<>> THEN <<>>
    ELSE IF Head(chars) = 95 THEN Tail(chars)
    ELSE AfterUnderscore(Tail(chars))

\* attr.split("_", 1)[-1]
SplitKey(attr) == CHOOSE k \in DOMAIN KeyChars : KeyChars[k] = AfterUnderscore(KeyChars[attr])

\* _handle_trigger_metadata without the placeholder on the first bag.
_handle_trigger_metadata_second_only(first, second, e, elem, attr) ==
    [first |-> first,
     second |-> setattr(second, "trigger_metadata",
                        AutoModTriggerMetadata_from_dict(Dict(SplitKey(attr) :> elem)))]

\* AuditLogChanges._handle_trigger_metadata(first, second, entry, elem, attr)
_handle_trigger_metadata(first, second, e, elem, attr) ==
    LET tm == AutoModTriggerMetadata_from_dict(Dict(SplitKey(attr) :> elem))
    IN  [first |-> IF ~hasattr(first, "trigger_metadata")
                   THEN setattr(first, "trigger_metadata", None)
                   ELSE first,
         second |-> setattr(second, "trigger_metadata", tm)]

\* The lookup without the renaming.
LookupRawName(attr) ==
    [attr |-> attr,
     transformer |-> IF attr \in DOMAIN TRANSFORMERS THEN TRANSFORMERS[attr][2]
                     ELSE NoTransformer]

\* The table lookup of the loop: the attribute name the record is stored
\* under and its transformer.
Lookup(attr) ==
    IF attr \in DOMAIN TRANSFORMERS
    THEN [attr |-> IF TRANSFORMERS[attr][1] # NoKey THEN TRANSFORMERS[attr][1] ELSE attr,
          transformer |-> TRANSFORMERS[attr][2]]
    ELSE [attr |-> attr, transformer |-> NoTransformer]

\* The decoding that keeps a value only when a transformer made it.
DecodeTransformedOnly(e, transformer, raw) ==
    IF raw = Absent \/ transformer = NoTransformer THEN None
    ELSE Apply(transformer, e, raw)

\* The value of one side of a record: None when the record lacks that side,
\* else the transformer's result, else the raw value.
Decode(e, transformer, raw) ==
    IF raw = Absent THEN None
    ELSE IF transformer # NoTransformer THEN Apply(transformer, e, raw)
    ELSE raw

\* The special case without its channel branch.
LocateExternalOnly(diff, attr, value) ==
    IF attr = "location" /\ hasattr(diff, "location_type")
          /\ diff["location_type"] = ScheduledEventLocationType_external
    THEN ScheduledEventLocation(value)
    ELSE value

\* The location special case, for one bag.
Locate(diff, attr, value) ==
    IF attr = "location" /\ hasattr(diff, "location_type")
    THEN IF diff["location_type"] = ScheduledEventLocationType_external
         THEN ScheduledEventLocation(value)
         ELSE IF hasattr(diff, "channel")
              THEN ScheduledEventLocation(diff["channel"])
              ELSE value
    ELSE value

\* A bag that gets the attribute only when the record has that side.
setattr_if_present(diff, a, raw, v) == IF raw = Absent THEN diff ELSE setattr(diff, a, v)

\* The value one bag gets from one side of a record looked up as l.
Side(e, diff, l, raw) == Locate(diff, l.attr, Decode(e, l.transformer, raw))

\* The stores, leaving a bag alone on the side a record lacks.
StoreSparse(e, st, elem, l) ==
    [before |-> setattr_if_present(st.before, l.attr, elem.old_value,
                                   Side(e, st.before, l, elem.old_value)),
     after |-> setattr_if_present(st.after, l.attr, elem.new_value,
                                  Side(e, st.after, l, elem.new_value)),
     raised |-> ""]

\* The two stores of a record looked up as l: both bags get the attribute.
Store(e, st, elem, l) ==
    [before |-> setattr(st.before, l.attr, Side(e, st.before, l, elem.old_value)),
     after |-> setattr(st.after, l.attr, Side(e, st.after, l, elem.new_value)),
     raised |-> ""]

\* What the loop does with a record that is not composite.
HandlePlain(e, st, elem) == Store(e, st, elem, Lookup(elem.key))

\* The bags after a handler called with (self.before, self.after, ...).
FirstBefore(r) == [before |-> r.first, after |-> r.second, raised |-> ""]

\* The bags after a handler called with (self.after, self.before, ...).
FirstAfter(r) == [before |-> r.second, after |-> r.first, raised |-> ""]

\* What the loop does with a composite record; elem["new_value"] raises
\* KeyError when the record has none.
HandleComposite(e, st, elem) ==
    IF elem.new_value = Absent THEN [st EXCEPT !.raised = "KeyError"]
    ELSE IF elem.key = "$add"
    THEN FirstBefore(_handle_role(st.before, st.after, e, elem.new_value))
    ELSE IF elem.key = "$remove"
    THEN FirstAfter(_handle_role(st.after, st.before, e, elem.new_value))
    ELSE IF elem.key \in TriggerAddKeys
    THEN FirstBefore(_handle_trigger_metadata(st.before, st.after, e, elem.new_value,
                                              elem.key))
    ELSE FirstAfter(_handle_trigger_metadata(st.after, st.before, e, elem.new_value,
                                             elem.key))

\* One iteration of the loop.
LoopBody(e, st, elem) ==
    IF elem.key \in CompositeKeys THEN HandleComposite(e, st, elem)
    ELSE HandlePlain(e, st, elem)

\* The loop over the records as given (already sorted); it ends at the
\* first exception.
RECURSIVE Loop(_, _, _)
Loop(e, st, elems) ==
    IF elems = <<>> \/ st.raised # "" THEN st
    ELSE Loop(e, LoopBody(e, st, Head(elems)), Tail(elems))

\* The alias written on the after bag alone.
AliasAfterOnly(st, src, dst) ==
    IF st.raised # "" \/ ~hasattr(st.after, src) THEN st
    ELSE [st EXCEPT !.after = setattr(st.after, dst, st.after[src])]

\* One alias of the post-pass: when the after bag has src, both bags get
\* dst; reading src from a before bag that lacks it raises AttributeError.
Alias(st, src, dst) ==
    IF st.raised # "" \/ ~hasattr(st.after, src) THEN st
    ELSE IF ~hasattr(st.before, src)
    THEN [before |-> st.before,
          after |-> setattr(st.after, dst, st.after[src]),
          raised |-> "AttributeError"]
    ELSE [before |-> setattr(st.before, dst, st.before[src]),
          after |-> setattr(st.after, dst, st.after[src]),
          raised |-> ""]

\* AuditLogChanges(entry, data, state=...): the bags, and the exception the
\* constructor raised, if any.
AuditLogChanges(e, data) ==
    LET new == [before |-> AuditLogDiff, after |-> AuditLogDiff, raised |-> ""]
        looped == Loop(e, new, SortedByKey(data))
    IN  Alias(Alias(looped, "colour", "color"), "expire_behavior", "expire_behaviour")


(***************************************************************************)
(* AuditLogEntry.  An entry e is the record of the attributes __init__     *)
(* and _from_data set: guild, users, state, action, id, reason, extra,     *)
(* user, target_id.  What the accessors change afterwards is o: the raw    *)
(* change list o.raw (self._changes), the instance dict's cached           *)
(* properties o.cached, and the number o.builds of AuditLogChanges objects *)
(* constructed so far.                                                     *)
(***************************************************************************)
\* d.get(k) of a dict value.
get(d, k) == IF k \in DOMAIN d.fields THEN d.fields[k] ELSE None

\* type("_AuditLogProxy", (), elems)()
_AuditLogProxy(elems) == [tag |-> "_AuditLogProxy", elems |-> elems]

\* The lookup without the fallback to an Object.
ChannelOnly(e, channel_id) == GetChannel(e, channel_id)

\* guild.get_channel(channel_id) or Object(id=channel_id)
ChannelOrObject(e, channel_id) == Or(GetChannel(e, channel_id), Object(Num(channel_id)))

\* The overwrite_ branch of _from_data.
OverwriteExtra(e, extra) ==
    LET instance_id == ToInt(extra.fields["id"])
        the_type == get(extra, "type")
        role == GetRole(e, instance_id)
    IN  IF the_type = Str("1") THEN _get_member(e, instance_id)
        ELSE IF the_type = Str("0")
        THEN IF role = None THEN NamedObject(Num(instance_id), get(extra, "role_name"))
             ELSE role
        ELSE extra

\* self.extra as _from_data leaves it, from data.get("options").
Extra(e, options) ==
    IF ~(e.action.known /\ Truthy(options)) THEN options
    ELSE IF e.action.name = "member_prune"
    THEN _AuditLogProxy([k \in DOMAIN options.fields |-> Num(ToInt(options.fields[k]))])
    ELSE IF e.action.name \in {"member_move", "message_delete"}
    THEN _AuditLogProxy(
             ("count" :> Num(ToInt(options.fields["count"]))) @@
             ("channel" :> ChannelOrObject(e, ToInt(options.fields["channel_id"]))))
    ELSE IF e.action.name = "member_disconnect"
    THEN _AuditLogProxy("count" :> Num(ToInt(options.fields["count"])))
    ELSE IF endswith(e.action, "pin")
    THEN _AuditLogProxy(
             ("channel" :> ChannelOrObject(e, ToInt(options.fields["channel_id"]))) @@
             ("message_id" :> Num(ToInt(options.fields["message_id"]))))
    ELSE IF startswith(e.action, "overwrite_") THEN OverwriteExtra(e, options)
    ELSE IF startswith(e.action, "stage_instance")
    THEN _AuditLogProxy("channel" :> ChannelOrObject(e, ToInt(options.fields["channel_id"])))
    ELSE options

\* data.get(key) of the payload, a record whose missing keys are Absent.
PayloadGet(v) == IF v = Absent THEN None ELSE v

\* utils._get_as_snowflake(data, key)
_get_as_snowflake(v) == IF v \in {Absent, None} THEN None ELSE Num(ToInt(v))

\* AuditLogEntry(users=users, data=data, guild=guild): __init__ and _from_data.
_from_data(guild0, users0, data0) ==
    LET ctx == [guild |-> guild0, users |-> users0, state |-> guild0.state,
                action |-> try_enum_action(data0.action_type),
                target_id |-> _get_as_snowflake(data0.target_id)]
        user_id == _get_as_snowflake(data0.user_id)
    IN  [guild |-> ctx.guild, users |-> ctx.users, state |-> ctx.state,
         action |-> ctx.action, target_id |-> ctx.target_id,
         id |-> ToInt(data0.id),
         reason |-> PayloadGet(data0.reason),
         extra |-> Extra(ctx, PayloadGet(data0.options)),
         user |-> IF user_id = None THEN None ELSE _get_member(ctx, user_id.n)]

\* self._changes after `del self._changes`.
Deleted == [tag |-> "Deleted"]

\* What an accessor gives: the object's state afterwards, the value it
\* returned, and the exception it raised ("" when none).
Returned(o, value) == [o |-> o, value |-> value, raised |-> ""]

Raised(o, exc) == [o |-> o, value |-> None, raised |-> exc]

\* utils.cached_property: the instance dict's value when the name is in it;
\* otherwise the function's result r, stored in the instance dict unless
\* the function raised.
cached_property(name, o, r) ==
    IF hasattr(o.cached, name) THEN Returned(o, o.cached[name])
    ELSE IF r.raised # "" THEN r
    ELSE Returned([r.o EXCEPT !.cached = setattr(r.o.cached, name, r.value)], r.value)

\* obj = AuditLogChanges(...): the exception of the construction built,
\* or one more object constructed.
Constructed(o, built) ==
    IF built.raised # "" THEN Raised(o, built.raised)
    ELSE Returned([o EXCEPT !.builds = o.builds + 1],
                  [tag |-> "AuditLogChanges", oid |-> o.builds + 1,
                   before |-> built.before, after |-> built.after])

\* del self._changes, which a construction that raised does not reach.
DelChanges(r) == IF r.raised # "" THEN r ELSE [r EXCEPT !.o.raw = Deleted]

\* The body without `del self._changes`.
changes_body_keeping(e, o) ==
    IF o.raw = Deleted THEN Raised(o, "AttributeError")
    ELSE Constructed(o, AuditLogChanges(e, o.raw.items))

\* The body of AuditLogEntry.changes: construct, delete the raw list,
\* return.  Reading a deleted self._changes raises AttributeError.
changes_body(e, o) ==
    IF o.raw = Deleted THEN Raised(o, "AttributeError")
    ELSE DelChanges(Constructed(o, AuditLogChanges(e, o.raw.items)))

\* AuditLogEntry.changes
changes(e, o) == cached_property("changes", o, changes_body(e, o))

\* self.changes.<name>: the attribute of the object the access c returned,
\* or the exception of c.
getattr(c, name) == IF c.raised # "" THEN c ELSE Returned(c.o, c.value[name])

\* The body of AuditLogEntry.before: self.changes.before
before_body(e, o) == getattr(changes(e, o), "before")

\* AuditLogEntry.before
before(e, o) == cached_property("before", o, before_body(e, o))

\* The body of AuditLogEntry.after: self.changes.after
after_body(e, o) == getattr(changes(e, o), "after")

\* AuditLogEntry.after
after(e, o) == cached_property("after", o, after_body(e, o))

\* The attributes _convert_target_invite reads without a guard.
InviteFields == {"max_age", "max_uses", "code", "temporary", "uses", "channel"}

\* Invite(state=..., data=fake_payload, guild=..., channel=...): the payload
\* has no inviter, so the invite starts with none.
Invite(e, payload, channel) ==
    [tag |-> "Invite", max_age |-> payload.max_age, max_uses |-> payload.max_uses,
     code |-> payload.code, temporary |-> payload.temporary, uses |-> payload.uses,
     guild |-> e.guild.id, channel |-> channel, inviter |-> None]

\* The after bag whatever the action.
changeset_after(e, o) == after(e, o)

\* Which bag _convert_target_invite reads.
changeset(e, o) ==
    IF e.action.known /\ e.action.name = "invite_delete" THEN before(e, o) ELSE after(e, o)

\* The invite made of the bag the access cs returned: reading a field the
\* bag lacks raises AttributeError, but for the inviter, which is optional.
InviteOf(e, cs) ==
    IF cs.raised # "" THEN cs
    ELSE IF ~(InviteFields \subseteq DOMAIN cs.value) THEN Raised(cs.o, "AttributeError")
    ELSE LET fake_payload == [f \in InviteFields \ {"channel"} |-> cs.value[f]]
             obj == Invite(e, fake_payload, cs.value["channel"])
         IN  Returned(cs.o,
                      IF hasattr(cs.value, "inviter")
                      THEN [obj EXCEPT !.inviter = cs.value["inviter"]]
                      ELSE obj)

\* AuditLogEntry._convert_target_invite
_convert_target_invite(e, o) == InviteOf(e, changeset(e, o))

\* The target types that have a _convert_target_ method.
ConverterTypes ==
    {"guild", "channel", "user", "role", "invite", "emoji", "message",
     "stage_instance", "sticker", "thread", "scheduled_event"}

\* The _convert_target_ methods other than the invite's, which read no
\* changes.
convert_target(e, tt, target_id) ==
    CASE tt = "guild" -> [tag |-> "Guild", id |-> e.guild.id.n]
      [] tt = "channel" -> Or(GetChannel(e, target_id.n), Object(target_id))
      [] tt = "user" -> _get_member(e, target_id.n)
      [] tt = "role" -> Or(GetRole(e, target_id.n), Object(target_id))
      [] tt = "emoji" -> Or(GetEmoji(e, target_id.n), Object(target_id))
      [] tt = "message" -> _get_member(e, target_id.n)
      [] tt = "stage_instance" -> Or(GetStageInstance(e, target_id.n), Object(target_id))
      [] tt = "sticker" -> Or(GetSticker(e, target_id.n), Object(target_id))
      [] tt = "thread" -> Or(GetThread(e, target_id.n), Object(target_id))
      [] tt = "scheduled_event" -> Or(GetScheduledEvent(e, target_id.n), Object(target_id))

\* The body of AuditLogEntry.target.
target_body(e, o) ==
    IF ~e.action.known \/ target_type(e.action.value) \notin ConverterTypes
    THEN Returned(o, Object(e.target_id))
    ELSE IF target_type(e.action.value) = "invite" THEN _convert_target_invite(e, o)
    ELSE Returned(o, convert_target(e, target_type(e.action.value), e.target_id))

\* AuditLogEntry.target
target(e, o) == cached_property("target", o, target_body(e, o))

(***************************************************************************)
(* The payloads.  The guild caches the entities with id 1; the users table *)
(* has user 2; id 3 is cached nowhere.                                     *)
(***************************************************************************)
TheGuild ==
    [id |-> Num(1), channels |-> {1}, roles |-> {1}, members |-> {1}, threads |-> {1},
     stage_instances |-> {1}, scheduled_events |-> {1},
     state |-> [guilds |-> {1}, emojis |-> {1}, stickers |-> {1}]]

TheUsers == {2}

\* The longest change list of the families below, the invite's apart.
MaxLen == 3

\* How many AuditLogChanges one entry may construct before the model stops.
MaxBuilds == 2

Bool(b) == [tag |-> "bool", b |-> b]

\* A change record.
Rec(key, old, new) == [key |-> key, old_value |-> old, new_value |-> new]

\* A role stub of a $add / $remove record.
Stub(id, name) == [id |-> Str(id), name |-> Str(name)]

\* member_role_update: role lists added and removed, a plain roles record,
\* and a $add record that lacks its new_value.
RoleRecords ==
    { Rec("$add", Absent, List(<<Stub("1", "A")>>)),
      Rec("$add", Absent, List(<<Stub("2", "B"), Stub("1", "A")>>)),
      Rec("$remove", Absent, List(<<Stub("3", "C")>>)),
      Rec("roles", List(<<Str("1")>>), List(<<>>)),
      Rec("$add", Absent, Absent) }

\* role_update: colour under both spellings, name.
ColourRecords ==
    { Rec("color", Num(1), Num(2)),
      Rec("color", Num(3), Absent),
      Rec("colour", Num(5), Num(6)),
      Rec("name", Absent, Str("c")) }

\* guild_update: owner, channel under both keys, slowmode, name.
GuildRecords ==
    { Rec("owner_id", Str("3"), Str("2")),
      Rec("channel_id", Str("1"), Str("2")),
      Rec("channel", Str("x"), Str("y")),
      Rec("rate_limit_per_user", Num(0), Num(7)),
      Rec("name", Str("a"), Absent) }

\* scheduled_event_update: entity type, channel, location.
EventRecords ==
    { Rec("entity_type", Num(2), Num(3)),
      Rec("channel_id", Str("1"), None),
      Rec("location", Str("x"), Str("y")),
      Rec("location_type", Num(3), Num(2)) }

\* integration_update: expire behaviour under both spellings.
IntegrationRecords ==
    { Rec("expire_behavior", Num(0), Num(1)),
      Rec("expire_behavior", Absent, Num(0)),
      Rec("expire_behaviour", Num(5), Num(6)),
      Rec("expire_grace_period", Num(1), Num(7)) }

\* auto_moderation_rule_update: trigger metadata lists and the plain record.
AutoModRecords ==
    { Rec("$add_keyword_filter", Absent, List(<<Str("k1")>>)),
      Rec("$add_allow_list", Absent, List(<<Str("a1")>>)),
      Rec("$remove_keyword_filter", Absent, List(<<Str("k2")>>)),
      Rec("$remove_regex_patterns", Absent, List(<<Str("r1")>>)),
      Rec("trigger_metadata", Dict("keyword_filter" :> List(<<Str("k0")>>)),
          Dict("keyword_filter" :> List(<<Str("k1")>>))) }

\* The sequences over a set of records, up to length n.
RECURSIVE SeqsUpTo(_, _)
SeqsUpTo(S, n) ==
    IF n = 0 THEN {<<>>}
    ELSE LET shorter == SeqsUpTo(S, n - 1)
         IN  shorter \cup {Append(q, r) : q \in shorter, r \in S}

\* invite_*: the records of one invite; a change list has most of them.
InviteRecords ==
    << Rec("code", Str("c1"), Str("c2")),
       Rec("max_age", Num(0), Num(7)),
       Rec("max_uses", Num(1), Num(2)),
       Rec("temporary", Bool(FALSE), Bool(TRUE)),
       Rec("uses", Num(0), Num(3)),
       Rec("channel_id", Str("1"), Str("2")),
       Rec("inviter_id", Str("1"), Str("2")) >>

\* The subsequence of a sequence at a set of positions.
RECURSIVE SubsequenceAt(_, _, _)
SubsequenceAt(seq, keep, i) ==
    IF i > Len(seq) THEN <<>>
    ELSE (IF i \in keep THEN <<seq[i]>> ELSE <<>>) \o SubsequenceAt(seq, keep, i + 1)

\* How many of the invite's records a change list may lack.
MaxMissing == 2

InviteLists ==
    {SubsequenceAt(InviteRecords, keep, 1) :
        keep \in {k \in SUBSET (1..Len(InviteRecords)) :
                     Cardinality(k) >= Len(InviteRecords) - MaxMissing}}

\* The change lists a payload of an action may carry.
ChangeLists(action_type) ==
    CASE action_type = 25 -> SeqsUpTo(RoleRecords, MaxLen)
      [] action_type = 31 -> SeqsUpTo(ColourRecords, MaxLen)
      [] action_type = 1 -> SeqsUpTo(GuildRecords, MaxLen)
      [] action_type = 101 -> SeqsUpTo(EventRecords, MaxLen)
      [] action_type = 81 -> SeqsUpTo(IntegrationRecords, MaxLen)
      [] action_type = 141 -> SeqsUpTo(AutoModRecords, MaxLen)
      [] action_type \in {40, 41, 42} -> InviteLists
      [] OTHER -> {<<>>}

\* The options a payload of an action may carry: none, null, empty, or the
\* keys that action has.
OptionsOf(action_type) ==
    {Absent, None, Dict(<<>>)} \cup
    CASE action_type = 21 ->
            {Dict(("delete_member_days" :> Str("7")) @@ ("members_removed" :> Str("3")))}
      [] action_type \in {26, 72, UnknownOrdinal} ->
            {Dict(("channel_id" :> Str(c)) @@ ("count" :> Str("3"))) : c \in {"1", "2"}}
      [] action_type \in {27, 73} -> {Dict("count" :> Str("2"))}
      [] action_type \in {74, 75} ->
            {Dict(("channel_id" :> Str(c)) @@ ("message_id" :> Str("7"))) : c \in {"1", "2"}}
      [] action_type \in {13, 14, 15} ->
            {Dict(("id" :> Str(i)) @@ ("type" :> Str(t)) @@ ("role_name" :> Str("R")))
                : i \in {"1", "2", "3"}, t \in {"0", "1"}}
            \cup {Dict("id" :> Str(i)) : i \in {"1", "3"}}
      [] action_type = 83 -> {Dict("channel_id" :> Str(c)) : c \in {"1", "2"}}
      [] OTHER -> {}

\* The target ids a payload of an action may carry; an invite's is null.
TargetIds(action_type) ==
    IF action_type \in {40, 41, 42} THEN {None} ELSE {Str("1"), Str("2"), Str("3")}

ActionTypes == DOMAIN AuditLogActionNames \cup {UnknownOrdinal}

(***************************************************************************)
(* The state machine: one entry, constructed from a payload, and the       *)
(* accesses to its memoized properties.                                    *)
(***************************************************************************)
VARIABLES
    data,       \* the payload the entry was constructed from
    self,       \* the entry's attributes as _from_data set them
    _changes,   \* self._changes: the raw change list (a List), or Deleted
    cached,     \* the instance dict's cached properties
    builds,     \* the AuditLogChanges objects constructed so far
    ret         \* the last access: the property, its value, its exception

vars == <<data, self, _changes, cached, builds, ret>>

\* The entry's mutable state, as the accessors take it.
O == [raw |-> _changes, cached |-> cached, builds |-> builds]

Init ==
    /\ \E a \in ActionTypes :
         \E opt \in OptionsOf(a), t \in TargetIds(a), ch \in ChangeLists(a) :
            /\ ch = <<>> \/ (opt = Absent /\ t \in {None, Str("1")})
            /\ data = [action_type |-> a, id |-> Str("7"), reason |-> Absent,
                       user_id |-> Str("1"), options |-> opt, changes |-> ch,
                       target_id |-> t]
    /\ self = _from_data(TheGuild, TheUsers, data)
    /\ _changes = List(data.changes)
    /\ cached = AuditLogDiff
    /\ builds = 0
    /\ ret = [op |-> "", value |-> None, raised |-> ""]

\* An access to a property: the object changes as the accessor says, and
\* the caller gets the value or the exception.
Access(op, r) ==
    /\ builds < MaxBuilds
    /\ _changes' = r.o.raw
    /\ cached' = r.o.cached
    /\ builds' = r.o.builds
    /\ ret' = [op |-> op, value |-> r.value, raised |-> r.raised]
    /\ UNCHANGED <<data, self>>

AccessChanges == Access("changes", changes(self, O))

AccessBefore == Access("before", before(self, O))

AccessAfter == Access("after", after(self, O))

AccessTarget == Access("target", target(self, O))

Next == AccessChanges \/ AccessBefore \/ AccessAfter \/ AccessTarget

Spec == Init /\ [][Next]_vars

(***************************************************************************)
(* What the claims speak of.                                               *)
(***************************************************************************)
\* The entry has built its diff.
Built == hasattr(cached, "changes")

\* The bags of the diff the entry built.
BuiltBefore == cached["changes"].before

BuiltAfter == cached["changes"].after

\* The records in the order the loop takes them; the definitions below take
\* this list as P.
Processed == SortedByKey(data.changes)

\* The attribute a record writes (on both bags).
WrittenAttr(elem) ==
    IF elem.key \in RoleKeys THEN "roles"
    ELSE IF elem.key \in TriggerAddKeys \cup TriggerRemoveKeys THEN "trigger_metadata"
    ELSE Lookup(elem.key).attr

\* No record the loop takes after the i-th writes the attribute the i-th
\* writes.
LastWriter(P, i) ==
    \A j \in (i + 1)..Len(P) : WrittenAttr(P[j]) # WrittenAttr(P[i])

\* The post-pass writes attr: it is the alias of an attribute the list sets.
Aliased(P, attr) ==
    \/ attr = "color" /\ \E j \in 1..Len(P) : WrittenAttr(P[j]) = "colour"
    \/ attr = "expire_behaviour"
         /\ \E j \in 1..Len(P) : WrittenAttr(P[j]) = "expire_behavior"

\* The i-th processed record is plain (not composite).
Plain(P, i) == P[i].key \notin CompositeKeys

\* The permutations of a sequence.
PermutationsOf(seq) ==
    {[i \in 1..Len(seq) |-> seq[p[i]]] : p \in Permutations(1..Len(seq))}

\* No two records of the list have the same key.
DistinctKeys(seq) == \A i, j \in 1..Len(seq) : i # j => seq[i].key # seq[j].key

(***************************************************************************)
(* C1.  The diff is built at most once: the first access that needs it     *)
(* constructs the AuditLogChanges and deletes the raw list; later accesses *)
(* return that same object (before/after its bags), and once an object     *)
(* has been constructed the raw list is gone for good.                     *)
(***************************************************************************)
C1_BuiltOnceState ==
    /\ builds <= 1
    /\ Built <=> builds = 1
    /\ builds = 1 => _changes = Deleted
    /\ Built => cached["changes"].oid = 1
    /\ ret.raised = "" /\ ret.op = "changes" => Built /\ ret.value = cached["changes"]
    /\ ret.raised = "" /\ ret.op = "before" => Built /\ ret.value = BuiltBefore
    /\ ret.raised = "" /\ ret.op = "after" => Built /\ ret.value = BuiltAfter
    /\ hasattr(cached, "before") => Built /\ cached["before"] = BuiltBefore
    /\ hasattr(cached, "after") => Built /\ cached["after"] = BuiltAfter
    /\ hasattr(cached, "target") /\ self.action.value \in {40, 41, 42} => Built

C1_BuiltOnce ==
    /\ []C1_BuiltOnceState
    /\ [][Built => /\ hasattr(cached', "changes")
                   /\ cached'["changes"] = cached["changes"]
                   /\ _changes' = Deleted
                   /\ builds' = builds]_vars

\* `changes` is read again after `before` had already built the diff of a
\* non-empty list.
C1_Witness ==
    /\ ret.op = "changes" /\ ret.raised = ""
    /\ hasattr(cached, "before")
    /\ Len(data.changes) >= 2

(***************************************************************************)
(* C2.  As stated: whenever `changes` returns the diff, the diff built     *)
(* from any permutation of the change list has the same bags.              *)
(***************************************************************************)
\* `changes` has just returned the entry's diff, of a list of up to MaxLen
\* records.
ChangesReturned == ret.op = "changes" /\ ret.raised = "" /\ Len(data.changes) <= MaxLen

SameAsReturned(list) ==
    LET b == AuditLogChanges(self, list)
    IN  b.raised = "" /\ b.before = ret.value.before /\ b.after = ret.value.after

C2_AnyOrderSameDiff ==
    ChangesReturned => \A p \in PermutationsOf(data.changes) : SameAsReturned(p)

\* C2, amended.  The same, for the lists whose records have pairwise
\* different keys: with a repeated key the record later in the input wins.
C2_DistinctKeysAnyOrderSameDiff ==
    ChangesReturned /\ DistinctKeys(data.changes) =>
        \A p \in PermutationsOf(data.changes) : SameAsReturned(p)

\* A diff returned for three records with different keys that were not
\* given in key order and of which two write the same attribute.
C2_Witness ==
    LET P == Processed IN
        /\ ChangesReturned /\ DistinctKeys(data.changes) /\ Len(data.changes) = 3
        /\ data.changes # P
        /\ \E i, j \in 1..3 : i # j /\ WrittenAttr(data.changes[i]) = WrittenAttr(data.changes[j])

(***************************************************************************)
(* C3.  As stated: a plain record that lacks old_value leaves the field    *)
(* unset on the before bag, one that lacks new_value leaves it unset on    *)
(* the after bag (no other record of the list writing that attribute).     *)
(***************************************************************************)
\* The i-th processed record is the only writer of its attribute.
OnlyWriter(P, i) ==
    /\ \A j \in 1..Len(P) :
          j # i => WrittenAttr(P[j]) # WrittenAttr(P[i])
    /\ ~Aliased(P, WrittenAttr(P[i]))

C3_AbsentSideUnset ==
    LET P == Processed IN
        Built =>
            \A i \in 1..Len(P) :
                Plain(P, i) /\ OnlyWriter(P, i) =>
                    /\ P[i].old_value = Absent =>
                          ~hasattr(BuiltBefore, WrittenAttr(P[i]))
                    /\ P[i].new_value = Absent =>
                          ~hasattr(BuiltAfter, WrittenAttr(P[i]))

\* C3, amended.  A plain record sets its attribute on both bags whichever
\* sides it has; the side it lacks holds None (where the record's value is
\* the one that stays: no later record and no alias writes the attribute,
\* and the attribute is not location).
C3_AbsentSideNone ==
    LET P == Processed IN
        Built =>
            \A i \in 1..Len(P) :
                Plain(P, i) =>
                    LET attr == WrittenAttr(P[i])
                    IN  /\ hasattr(BuiltBefore, attr) /\ hasattr(BuiltAfter, attr)
                        /\ LastWriter(P, i) /\ ~Aliased(P, attr) /\ attr # "location" =>
                              /\ P[i].old_value = Absent => BuiltBefore[attr] = None
                              /\ P[i].new_value = Absent => BuiltAfter[attr] = None

\* A built diff of two or more records, one of them a plain record with
\* only a new_value whose attribute nothing overwrites.
C3_Witness ==
    LET P == Processed IN
        /\ Built /\ Len(P) >= 2
        /\ \E i \in 1..Len(P) :
              /\ Plain(P, i) /\ LastWriter(P, i) /\ ~Aliased(P, WrittenAttr(P[i]))
              /\ WrittenAttr(P[i]) # "location"
              /\ P[i].old_value = Absent /\ P[i].new_value # Absent

(***************************************************************************)
(* C4.  As stated: for every record whose key has a transformer in the     *)
(* table and which has both sides, the before bag holds                    *)
(* transformer(entry, old_value) and the after bag                         *)
(* transformer(entry, new_value), under the renamed attribute when the     *)
(* table gives one and under the raw key otherwise.                        *)
(***************************************************************************)
\* The i-th processed record has a registered transformer and both sides.
Transformed(P, i) ==
    /\ P[i].key \in DOMAIN TRANSFORMERS
    /\ TRANSFORMERS[P[i].key][2] # NoTransformer
    /\ P[i].old_value # Absent /\ P[i].new_value # Absent

\* The name the table exposes a key under.
Exposed(key) == IF TRANSFORMERS[key][1] # NoKey THEN TRANSFORMERS[key][1] ELSE key

\* Both bags hold the transformer's results for the i-th processed record.
HoldsTransformed(P, i) ==
    LET elem == P[i]
        name == Exposed(elem.key)
        t == TRANSFORMERS[elem.key][2]
    IN  /\ hasattr(BuiltBefore, name) /\ hasattr(BuiltAfter, name)
        /\ BuiltBefore[name] = Apply(t, self, elem.old_value)
        /\ BuiltAfter[name] = Apply(t, self, elem.new_value)

C4_TransformerApplied ==
    LET P == Processed IN
        Built => \A i \in 1..Len(P) : Transformed(P, i) => HoldsTransformed(P, i)

\* C4, amended.  The same, for the records after which the loop takes no
\* record that writes the same attribute.
C4_TransformerAppliedLastWriter ==
    LET P == Processed IN
        Built =>
            \A i \in 1..Len(P) : Transformed(P, i) /\ LastWriter(P, i) => HoldsTransformed(P, i)

\* A built diff in which a renamed, transformed record overwrote what an
\* earlier record had written to the same attribute.
C4_Witness ==
    LET P == Processed IN
        /\ Built
        /\ \E i \in 1..Len(P) :
              /\ Transformed(P, i) /\ LastWriter(P, i)
              /\ Exposed(P[i].key) # P[i].key
              /\ \E j \in 1..(i - 1) : WrittenAttr(P[j]) = WrittenAttr(P[i])

(***************************************************************************)
(* C5.  As stated: for every plain record whose key is not in the table,   *)
(* each side the record has is in that side's bag under the raw key, with  *)
(* the raw value, whatever else the list contains.                         *)
(***************************************************************************)
\* The i-th processed record is plain and its key is not in the table.
Untabled(P, i) == Plain(P, i) /\ P[i].key \notin DOMAIN TRANSFORMERS

\* Both bags hold the raw values of the i-th processed record's sides.
HoldsRaw(P, i) ==
    LET elem == P[i]
    IN  /\ elem.old_value # Absent =>
              hasattr(BuiltBefore, elem.key) /\ BuiltBefore[elem.key] = elem.old_value
        /\ elem.new_value # Absent =>
              hasattr(BuiltAfter, elem.key) /\ BuiltAfter[elem.key] = elem.new_value

C5_RawPassedThrough ==
    LET P == Processed IN
        Built => \A i \in 1..Len(P) : Untabled(P, i) => HoldsRaw(P, i)

\* The i-th processed record's value stays as written: no later record and
\* no alias writes its attribute, and it is not a location in a diff that
\* has a location_type.
Undisturbed(P, i) ==
    /\ LastWriter(P, i)
    /\ ~Aliased(P, P[i].key)
    /\ P[i].key = "location" =>
          ~hasattr(BuiltBefore, "location_type") /\ ~hasattr(BuiltAfter, "location_type")

\* C5, amended.  The same, for the records whose value stays as written.
C5_RawPassedThroughUndisturbed ==
    LET P == Processed IN
        Built => \A i \in 1..Len(P) : Untabled(P, i) /\ Undisturbed(P, i) => HoldsRaw(P, i)

\* A built diff with an untabled record that has both sides, beside a record
\* of another key that has a transformer.
C5_Witness ==
    LET P == Processed IN
        /\ Built
        /\ \E i, j \in 1..Len(P) :
              /\ Untabled(P, i) /\ Undisturbed(P, i)
              /\ P[i].old_value # Absent /\ P[i].new_value # Absent
              /\ Transformed(P, j)

(***************************************************************************)
(* C6.  As stated: with a $add and/or a $remove record in the list,        *)
(* after.roles is the resolved list of the $add record and before.roles    *)
(* that of the $remove record, a role the guild does not cache being an    *)
(* Object with the stub's id and name; both bags have roles, the side      *)
(* without a record holding the empty list.                                *)
(***************************************************************************)
\* What a role stub resolves to.
ExpectedRole(stub) ==
    IF ToInt(stub.id) \in self.guild.roles THEN [tag |-> "Role", id |-> ToInt(stub.id)]
    ELSE [tag |-> "Object", id |-> ToInt(stub.id), name |-> stub.name]

ExpectedRoles(stubs) == List([k \in 1..Len(stubs.items) |-> ExpectedRole(stubs.items[k])])

\* The positions of the records with a key.
Positions(P, key) == {i \in 1..Len(P) : P[i].key = key}

HasRoleRecord(P) == Positions(P, "$add") \cup Positions(P, "$remove") # {}

\* The bag has roles, and every record with the key resolves to it; the
\* empty list when there is no such record.
RolesFrom(P, diff, key) ==
    /\ hasattr(diff, "roles")
    /\ \A i \in Positions(P, key) : diff["roles"] = ExpectedRoles(P[i].new_value)
    /\ Positions(P, key) = {} => diff["roles"] = List(<<>>)

C6_RolesFromAddRemove ==
    LET P == Processed IN
        Built /\ HasRoleRecord(P) =>
            RolesFrom(P, BuiltAfter, "$add") /\ RolesFrom(P, BuiltBefore, "$remove")

Max(S) == CHOOSE x \in S : \A y \in S : y <= x

\* The bag has roles: those of the last record with the key, the empty list
\* when there is none.
RolesFromLast(P, diff, key) ==
    /\ hasattr(diff, "roles")
    /\ diff["roles"] = IF Positions(P, key) = {} THEN List(<<>>)
                       ELSE ExpectedRoles(P[Max(Positions(P, key))].new_value)

\* C6, amended.  The same with "the last $add / $remove record of the
\* input", for the lists that have no plain roles record.
C6_RolesFromLastAddRemove ==
    LET P == Processed IN
        Built /\ HasRoleRecord(P) /\ Positions(P, "roles") = {} =>
            RolesFromLast(P, BuiltAfter, "$add") /\ RolesFromLast(P, BuiltBefore, "$remove")

\* A built diff of a list with $remove records only, whose role the guild
\* does not cache.
C6_Witness ==
    LET P == Processed IN
        /\ Built /\ Positions(P, "$remove") # {} /\ Positions(P, "$add") = {}
        /\ Positions(P, "roles") = {}
        /\ BuiltAfter["roles"] = List(<<>>)
        /\ \E k \in 1..Len(BuiltBefore["roles"].items) :
              BuiltBefore["roles"].items[k].tag = "Object"

(***************************************************************************)
(* C7.  As stated: the action alone decides the shape of extra.            *)
(* member_prune: the options' keys with their values as integers;          *)
(* member_move, message_delete: channel and count; member_disconnect:      *)
(* count; *pin: channel and message_id; stage_instance_*: channel; ids     *)
(* and counts integers, channels the cached channel or an Object with the  *)
(* id.  Every other action, an unknown ordinal, options missing or empty:  *)
(* the raw options value (None when missing).                              *)
(***************************************************************************)
\* data.get("options")
Options == IF data.options = Absent THEN None ELSE data.options

\* The options are there and not empty.
HasOptions == Options # None /\ DOMAIN Options.fields # {}

\* The integer a raw option spells.
OptionInt(k) == Num(IntOf[Options.fields[k].s])

\* The channel the options name: cached, or an Object with its id.
ExpectedChannel ==
    LET id == IntOf[Options.fields["channel_id"].s]
    IN  IF id \in self.guild.channels THEN [tag |-> "Channel", id |-> id]
        ELSE [tag |-> "Object", id |-> id]

\* extra is a record of exactly these values.
ExtraIs(elems) == self.extra = [tag |-> "_AuditLogProxy", elems |-> elems]

\* The shape the named action families have.
ShapedExtra ==
    /\ data.action_type = 21 =>
          ExtraIs([k \in DOMAIN Options.fields |-> OptionInt(k)])
    /\ data.action_type \in {26, 72} =>
          ExtraIs(("channel" :> ExpectedChannel) @@ ("count" :> OptionInt("count")))
    /\ data.action_type = 27 => ExtraIs("count" :> OptionInt("count"))
    /\ data.action_type \in {74, 75} =>
          ExtraIs(("channel" :> ExpectedChannel) @@ ("message_id" :> OptionInt("message_id")))
    /\ data.action_type = 83 => ExtraIs("channel" :> ExpectedChannel)

ShapedActions == {21, 26, 72, 27, 74, 75, 83}

OverwriteActions == {13, 14, 15}

C7_ExtraShapeByAction ==
    /\ HasOptions => ShapedExtra
    /\ ~HasOptions \/ data.action_type \notin ShapedActions => self.extra = Options

\* C7, amended.  The same, the overwrite_* actions apart: with options they
\* are one more family, whose extra is a member or a role.
C7_ExtraShapeByActionButOverwrite ==
    /\ HasOptions => ShapedExtra
    /\ ~HasOptions \/ data.action_type \notin ShapedActions \cup OverwriteActions =>
          self.extra = Options

\* An entry decoded from a pin action's options whose channel the guild does
\* not cache.
C7_Witness ==
    /\ data.action_type = 74 /\ HasOptions
    /\ self.extra.tag = "_AuditLogProxy" /\ self.extra.elems["channel"].tag = "Object"

(***************************************************************************)
(* C8.  As stated: for an overwrite_* action with options, extra is the    *)
(* member for type "1", and for type "0" the cached role or an Object with *)
(* the id and the raw role_name; it is never the raw options and never     *)
(* None.                                                                   *)
(***************************************************************************)
C8_OverwriteExtraReplaced ==
    data.action_type \in OverwriteActions /\ HasOptions =>
        LET id == IntOf[Options.fields["id"].s]
            type == IF "type" \in DOMAIN Options.fields THEN Options.fields["type"] ELSE None
        IN  /\ type = Str("1") => self.extra.tag \in {"Member", "User"} /\ self.extra.id = id
            /\ type = Str("0") =>
                  self.extra = IF id \in self.guild.roles THEN [tag |-> "Role", id |-> id]
                               ELSE [tag |-> "Object", id |-> id,
                                     name |-> Options.fields["role_name"]]
            /\ self.extra # Options
            /\ self.extra # None

(***************************************************************************)
(* C9.  When target is read on an entry whose target type is invite and    *)
(* whose diff has the invite's fields, it is the invite made from the      *)
(* before bag for invite_delete and from the after bag otherwise, with     *)
(* that bag's inviter when it has one and none otherwise, and no error.    *)
(***************************************************************************)
InviteActions == {40, 41, 42}

\* The bag the invite is said to come from.
InviteBag == IF data.action_type = 42 THEN BuiltBefore ELSE BuiltAfter

C9_InviteFromBag ==
    ret.op = "target" /\ data.action_type \in InviteActions /\ Built
    /\ InviteFields \subseteq DOMAIN InviteBag =>
        /\ ret.raised = ""
        /\ ret.value.tag = "Invite"
        /\ ret.value.max_age = InviteBag["max_age"]
        /\ ret.value.max_uses = InviteBag["max_uses"]
        /\ ret.value.code = InviteBag["code"]
        /\ ret.value.temporary = InviteBag["temporary"]
        /\ ret.value.uses = InviteBag["uses"]
        /\ ret.value.channel = InviteBag["channel"]
        /\ ret.value.inviter = IF hasattr(InviteBag, "inviter") THEN InviteBag["inviter"]
                               ELSE None
        /\ hasattr(cached, "target") /\ cached["target"] = ret.value

\* target read on an invite_delete entry whose change list has the invite's
\* fields and no inviter.
C9_Witness ==
    /\ ret.op = "target" /\ ret.raised = "" /\ data.action_type = 42
    /\ Len(data.changes) = 6 /\ ~hasattr(BuiltBefore, "inviter")
    /\ ret.value.code = Str("c1")

(***************************************************************************)
(* C10.  As stated: reading target never fails and never gives None: for   *)
(* a target type with a lookup (channel, role, user, message, emoji, stage *)
(* instance, sticker, thread, scheduled event) whose id is not cached, and *)
(* for a target type without one or an unknown ordinal, target is an       *)
(* Object with the target id.                                              *)
(***************************************************************************)
\* The ids the lookup of a target type finds.
Cached(tt) ==
    CASE tt = "channel" -> self.guild.channels
      [] tt = "role" -> self.guild.roles
      [] tt \in {"user", "message"} -> self.guild.members \cup self.users
      [] tt = "emoji" -> self.state.emojis
      [] tt = "stage_instance" -> self.guild.stage_instances
      [] tt = "sticker" -> self.state.stickers
      [] tt = "thread" -> self.guild.threads
      [] tt = "scheduled_event" -> self.guild.scheduled_events
      [] OTHER -> {}

\* The target type of the entry's action; "" for an unknown ordinal.
TargetType == IF self.action.known THEN target_type(self.action.value) ELSE ""

C10_TargetObjectWhenUnresolved ==
    ret.op = "target" /\ TargetType \notin {"guild", "invite"} =>
        /\ ret.raised = ""
        /\ ret.value # None
        /\ self.target_id.n \notin Cached(TargetType) =>
              ret.value = [tag |-> "Object", id |-> self.target_id.n]

(***************************************************************************)
(* C11.  After a build, when a change record set colour, both bags carry   *)
(* color equal to that bag's colour, and when one set expire_behavior,     *)
(* both carry expire_behaviour equal to that bag's expire_behavior; the    *)
(* aliasing step never raises AttributeError for a bag that lacks the      *)
(* source attribute, so no access to changes, before or after does.        *)
(***************************************************************************)
\* The aliases of the post-pass, as <<source, alias>>.
Aliases == {<<"colour", "color">>, <<"expire_behavior", "expire_behaviour">>}

\* A record of the list writes the attribute.
SetByRecord(P, attr) == \E j \in 1..Len(P) : WrittenAttr(P[j]) = attr

\* The bag has both attributes, with the same value.
Mirrors(diff, src, dst) == hasattr(diff, src) /\ hasattr(diff, dst) /\ diff[dst] = diff[src]

C11_AliasMirrorsBothBags ==
    LET P == Processed IN
        /\ ret.op \in {"changes", "before", "after"} => ret.raised # "AttributeError"
        /\ Built =>
              \A a \in Aliases :
                 SetByRecord(P, a[1]) =>
                    Mirrors(BuiltBefore, a[1], a[2]) /\ Mirrors(BuiltAfter, a[1], a[2])

\* A built diff whose colour was set by a record, the two bags holding
\* different colours and each its own under color.
C11_Witness ==
    LET P == Processed IN
        /\ Built
        /\ SetByRecord(P, "colour")
        /\ hasattr(BuiltBefore, "color") /\ hasattr(BuiltAfter, "color")
        /\ BuiltBefore["color"] # BuiltAfter["color"]
        /\ BuiltBefore["color"] # None

(***************************************************************************)
(* C12.  As stated: in a list with a location record and an entity_type    *)
(* record (exposed as location_type) and/or a channel_id record (exposed   *)
(* as channel), whatever the input order, each bag's location is a         *)
(* location object wrapping the raw value when that bag's location_type is *)
(* external, otherwise a location object wrapping that bag's channel when  *)
(* it carries one, otherwise the raw value.  Read in the statement's       *)
(* favour for the lists that have no record under the raw key              *)
(* location_type, which sorts after location and would replace the         *)
(* location_type the location record saw.                                  *)
(***************************************************************************)
\* The list has a location record with a sibling record before it.
HasLocationWithSibling(P) ==
    /\ Positions(P, "location") # {}
    /\ Positions(P, "entity_type") \cup Positions(P, "channel_id") # {}
    /\ Positions(P, "location_type") = {}

\* The decoded value of a side of a record whose key has no transformer.
RawSide(v) == IF v = Absent THEN None ELSE v

\* The location of a bag as the statement has it.
ClaimedLocation(diff, v) ==
    IF hasattr(diff, "location_type")
          /\ diff["location_type"] = ScheduledEventLocationType_external
    THEN ScheduledEventLocation(v)
    ELSE IF hasattr(diff, "channel") THEN ScheduledEventLocation(diff["channel"])
    ELSE v

\* The location of a bag that has a location_type is as the statement has
\* it; one without a location_type holds the raw value.
GuardedLocation(diff, v) ==
    IF hasattr(diff, "location_type") THEN ClaimedLocation(diff, v) ELSE v

\* The last location record of the list.
LastLocation(P) == P[Max(Positions(P, "location"))]

C12_LocationSeesSiblings ==
    LET P == Processed IN
        Built /\ HasLocationWithSibling(P) =>
            /\ BuiltBefore["location"]
                  = ClaimedLocation(BuiltBefore, RawSide(LastLocation(P).old_value))
            /\ BuiltAfter["location"]
                  = ClaimedLocation(BuiltAfter, RawSide(LastLocation(P).new_value))

\* C12, amended.  The same, but a bag that carries no location_type (the
\* list has no entity_type record) holds the raw location value unwrapped
\* even when it carries a channel: the channel is looked at only in a bag
\* that has a location_type.
C12_LocationSeesSiblingsWithType ==
    LET P == Processed IN
        Built /\ HasLocationWithSibling(P) =>
            /\ BuiltBefore["location"]
                  = GuardedLocation(BuiltBefore, RawSide(LastLocation(P).old_value))
            /\ BuiltAfter["location"]
                  = GuardedLocation(BuiltAfter, RawSide(LastLocation(P).new_value))

\* A built diff of a list given with its location record first and its
\* entity_type and channel_id records after it: the after bag, whose type
\* is external, wraps the raw value, and the before bag wraps its channel.
C12_Witness ==
    /\ Built
    /\ Len(data.changes) = 3
    /\ data.changes[1].key = "location"
    /\ {data.changes[2].key, data.changes[3].key} = {"entity_type", "channel_id"}
    /\ BuiltAfter["location_type"] = ScheduledEventLocationType_external
    /\ BuiltAfter["location"] = ScheduledEventLocation(data.changes[1].new_value)
    /\ BuiltBefore["location"] = ScheduledEventLocation(BuiltBefore["channel"])

(***************************************************************************)
(* C13.  After a build the before bag and the after bag have exactly the   *)
(* same attribute names: every record, plain or composite, leaves the      *)
(* attribute it writes on both bags, and the post-pass writes its aliases  *)
(* on both.                                                                *)
(***************************************************************************)
\* The attributes the records of the list write, and the aliases of those
\* the post-pass mirrors.
AttributeNames(P) ==
    {WrittenAttr(P[i]) : i \in 1..Len(P)}
        \cup {a[2] : a \in {b \in Aliases : SetByRecord(P, b[1])}}

C13_BagsHaveSameNames ==
    LET P == Processed IN
        Built =>
            /\ DOMAIN BuiltBefore = DOMAIN BuiltAfter
            /\ DOMAIN BuiltAfter = AttributeNames(P)

\* A built diff of a list of two or more records, with a $add_*
\* trigger-metadata record and neither a $remove_* nor a plain
\* trigger_metadata record: the before bag has trigger_metadata all the
\* same, holding the placeholder None.
C13_Witness ==
    LET P == Processed IN
        /\ Built
        /\ Len(P) >= 2
        /\ \E i \in 1..Len(P) : P[i].key \in TriggerAddKeys
        /\ \A i \in 1..Len(P) : P[i].key \notin TriggerRemoveKeys \cup {"trigger_metadata"}
        /\ BuiltBefore["trigger_metadata"] = None
        /\ BuiltAfter["trigger_metadata"] # None

(***************************************************************************)
(* C14.  As stated: when two or more records of a list write the same      *)
(* attribute of a bag, the attribute's final value is the one written by   *)
(* the record that is last in key-sorted order (for equal keys, last in    *)
(* the input); the earlier values are overwritten, neither merged nor      *)
(* accumulated.                                                            *)
(***************************************************************************)
Bags == {"before", "after"}

\* The bag of the diff the entry built.
BuiltBag(bag) == cached["changes"][bag]

\* The i-th processed record writes the attribute of the bag: a plain
\* record writes its attribute on both bags, a composite one its list on
\* the bag it is called with as second (the placeholder it puts on a first
\* bag that lacks the key overwrites nothing).
Writes(P, i, bag, attr) ==
    /\ WrittenAttr(P[i]) = attr
    /\ P[i].key \in {"$add"} \cup TriggerAddKeys => bag = "after"
    /\ P[i].key \in {"$remove"} \cup TriggerRemoveKeys => bag = "before"

Writers(P, bag, attr) == {i \in 1..Len(P) : Writes(P, i, bag, attr)}

\* The attributes of a bag that two or more records write.
Contended(P, bag) ==
    {attr \in {WrittenAttr(P[i]) : i \in 1..Len(P)} : Cardinality(Writers(P, bag, attr)) >= 2}

\* The value the attribute of the bag has when the loop has taken the
\* first k records.
ValueAfter(P, k, bag, attr) ==
    Loop(self, [before |-> AuditLogDiff, after |-> AuditLogDiff, raised |-> ""],
         SubSeq(P, 1, k))[bag][attr]

\* The list without the records that write the attribute of the bag
\* before the k-th.
RECURSIVE WithoutEarlier(_, _, _, _, _)
WithoutEarlier(P, i, k, bag, attr) ==
    IF i > Len(P) THEN <<>>
    ELSE (IF i < k /\ Writes(P, i, bag, attr) THEN <<>> ELSE <<P[i]>>)
            \o WithoutEarlier(P, i + 1, k, bag, attr)

\* The final value is the one the last writer wrote.
LastWritten(P, bag, attr) ==
    BuiltBag(bag)[attr] = ValueAfter(P, Max(Writers(P, bag, attr)), bag, attr)

\* The final value is the same as without the earlier writers: it holds
\* nothing of what they wrote.
NothingKept(P, bag, attr) ==
    BuiltBag(bag)[attr]
        = AuditLogChanges(self, WithoutEarlier(P, 1, Max(Writers(P, bag, attr)), bag, attr))[bag][attr]

C14_LastWriterWins ==
    LET P == Processed IN
        Built =>
            \A bag \in Bags :
                \A attr \in Contended(P, bag) :
                    LastWritten(P, bag, attr) /\ NothingKept(P, bag, attr)

\* C14, amended.  The same, for the attributes the post-pass does not
\* write: expire_behaviour, in a list that sets expire_behavior, ends as
\* the copy of expire_behavior whatever the expire_behaviour records wrote.
C14_LastWriterWinsButAlias ==
    LET P == Processed IN
        Built =>
            \A bag \in Bags :
                \A attr \in Contended(P, bag) :
                    /\ ~Aliased(P, attr) => LastWritten(P, bag, attr)
                    /\ NothingKept(P, bag, attr)

\* A built diff of a list with two $add_* trigger-metadata records of
\* different keys: the after bag's trigger_metadata is the one of the
\* record that sorts last and holds nothing of the other's.
C14_Witness ==
    LET P == Processed IN
        /\ Built
        /\ Len(P) = 2
        /\ P[1].key \in TriggerAddKeys /\ P[2].key \in TriggerAddKeys
        /\ P[1].key # P[2].key
        /\ data.changes[1] = P[2]
        /\ BuiltAfter["trigger_metadata"]
              = AutoModTriggerMetadata_from_dict(Dict(SplitKey(P[2].key) :> P[2].new_value))
====
